---- MODULE Spec2Model ----
(***************************************************************************)
(* metabase.task.follow-up-emails: the two scheduled notification jobs     *)
(* FollowUpEmail and AbandonmentEmail, their persisted sent-settings, the  *)
(* user / activity / view-log tables they read, and the Quartz worker      *)
(* that runs them.                                                         *)
(*                                                                         *)
(* Time is counted in weeks.  A user's e-mail address is identified with   *)
(* the user's position in the User table.                                  *)
(*                                                                         *)
(* The two jobs share nothing they write: each reads and writes only its   *)
(* own setting.  A behaviour of the model therefore follows the trigger of *)
(* one of them (scheduled), chosen at the start.  The tables and the clock *)
(* change between executions, not during one.                              *)
(***************************************************************************)
EXTENDS Integers, Sequences, FiniteSets

\* ---------------------------------------------------------------- bounds
MaxTicks    == 2    \* steps the clock takes
MaxUsers    == 2    \* rows in the User table
MaxAttempts == 2    \* send attempts counted per notification
MaxWorkers  == 2    \* threads of the scheduler's worker pool

\* ------------------------------------------------------ program constants
TwoWeeks  == 2      \* (t/weeks 2)
FourWeeks == 4      \* (t/weeks 4)
NoTime    == -1     \* nil in a (s/maybe Temporal) position

\* the clock advances two weeks at a step, from week 0 to week MaxNow
ClockStep == TwoWeeks
MaxNow    == MaxTicks * ClockStep

FollowUp    == "FollowUpEmail"
Abandonment == "AbandonmentEmail"
Jobs        == {FollowUp, Abandonment}
Workers     == 1..MaxWorkers

FollowUpError    == "Problem sending follow-up email:"
AbandonmentError == "Problem sending abandonment email"
AbandonmentInfo  == "Sending abandonment email!"

VARIABLES
    now,                     \* the wall clock, in weeks
    users,                   \* User table, in insertion order
    last_activity,           \* max(timestamp) of Activity, or NoTime
    last_view,               \* max(timestamp) of ViewLog, or NoTime
    follow_up_email_sent,    \* persisted setting
    abandonment_email_sent,  \* persisted setting
    attempts,                \* calls of messages/send-follow-up-email! per job
    interrupted,             \* send calls cut short by a process restart, per job
    log,                     \* messages written with log/info and log/error
    run,                     \* per worker thread: the job execution it carries
    scheduled,               \* the job whose trigger this behaviour follows
    probe                    \* arguments and result of a direct 4-arity call

db    == <<users, last_activity, last_view>>
flags == <<follow_up_email_sent, abandonment_email_sent>>
vars  == <<now, users, last_activity, last_view, follow_up_email_sent,
           abandonment_email_sent, attempts, interrupted, log, run, scheduled,
           probe>>

\* ------------------------------------------------------------ data lookups
Idle == [pc |-> "idle", job |-> "none", flag_at_start |-> FALSE,
         email_configured |-> FALSE, anon_tracking_enabled |-> FALSE,
         email_calls |-> {}, to |-> 0, outcome |-> "none"]

NoProbe == [ic |-> NoTime, lu |-> NoTime, la |-> NoTime, lv |-> NoTime,
            res |-> "off", changed |-> "none"]

Joined(S) == {users[i].date_joined : i \in S}

MinOf(T) == CHOOSE t \in T : \A u \in T : t <= u
MaxOf(T) == CHOOSE t \in T : \A u \in T : t >= u

\* u.date/older-than?: t lies at least `weeks` before now
older_than(t, weeks) == now - t >= weeks

\* (db/select-one-field :date_joined User {:order-by [[:date_joined :asc]]})
instance_creation_timestamp ==
    IF users = <<>> THEN NoTime ELSE MinOf(Joined(DOMAIN users))

\* {:select [[:%max.date_joined :last]] :from [User]}
last_user ==
    IF users = <<>> THEN NoTime ELSE MaxOf(Joined(DOMAIN users))

\* rows a select-one with :order-by [:date_joined] may return: the matching
\* rows with the least date_joined (the database breaks a tie as it likes)
Earliest(S) == {i \in S : \A j \in S : users[i].date_joined <= users[j].date_joined}

\* (User :is_superuser true, :is_active true, {:order-by [:date_joined]})
follow_up_admin ==
    Earliest({i \in DOMAIN users : users[i].is_superuser /\ users[i].is_active})

\* (db/select-one-field :email User :is_superuser true, {:order-by [:date_joined]})
abandonment_admin_email ==
    Earliest({i \in DOMAIN users : users[i].is_superuser})

Sent(j) == IF j = FollowUp THEN follow_up_email_sent ELSE abandonment_email_sent

\* ------------------------------------------------------- should-send (4-arity)
\* variant: the view log is not consulted
should_send_abandoment_email_ignoring_views(instance_creation, lastuser, lastactivity, lastview) ==
    /\ instance_creation # NoTime
    /\ older_than(instance_creation, FourWeeks)
    /\ (lastuser = NoTime     \/ older_than(lastuser, TwoWeeks))
    /\ (lastactivity = NoTime \/ older_than(lastactivity, TwoWeeks))

\* variant: a missing activity timestamp does not count as satisfied
should_send_abandoment_email_absent_blocks(instance_creation, lastuser, lastactivity, lastview) ==
    /\ instance_creation # NoTime
    /\ older_than(instance_creation, FourWeeks)
    /\ (lastuser = NoTime     \/ older_than(lastuser, TwoWeeks))
    /\ (lastactivity # NoTime /\ older_than(lastactivity, TwoWeeks))
    /\ (lastview = NoTime     \/ older_than(lastview, TwoWeeks))

\* variant: the newest user's date_joined is not consulted
should_send_abandoment_email_ignoring_last_user(instance_creation, lastuser, lastactivity, lastview) ==
    /\ instance_creation # NoTime
    /\ older_than(instance_creation, FourWeeks)
    /\ (lastactivity = NoTime \/ older_than(lastactivity, TwoWeeks))
    /\ (lastview = NoTime     \/ older_than(lastview, TwoWeeks))

should_send_abandoment_email(instance_creation, lastuser, lastactivity, lastview) ==
    /\ instance_creation # NoTime
    /\ older_than(instance_creation, FourWeeks)
    /\ (lastuser = NoTime     \/ older_than(lastuser, TwoWeeks))
    /\ (lastactivity = NoTime \/ older_than(lastactivity, TwoWeeks))
    /\ (lastview = NoTime     \/ older_than(lastview, TwoWeeks))

\* should-send (0-arity): the arguments come from the database
should_send_abandoment_email_db ==
    should_send_abandoment_email(instance_creation_timestamp, last_user,
                                 last_activity, last_view)

\* ------------------------------------------------------------ the settings
\* setting/defsetting ... :type :boolean :default false: the value is kept in
\* the application database and read back after a restart
\* (variant: the setting is not persisted and comes back as its default)
setting_after_restart_default(value) == FALSE

setting_after_restart(value) == value

\* -------------------------------------------------------- FollowUpEmail job
\* (when-not (follow-up-email-sent) (when-let [instance-created ...]
\*   (when (u.date/older-than? instance-created (t/weeks 2)) ...)))
\* (variant: the job body does not look at the flag)
FollowUpEmail_due_flag_unchecked ==
    /\ instance_creation_timestamp # NoTime
    /\ older_than(instance_creation_timestamp, TwoWeeks)

FollowUpEmail_due ==
    /\ ~follow_up_email_sent
    /\ instance_creation_timestamp # NoTime
    /\ older_than(instance_creation_timestamp, TwoWeeks)

\* (and (email/email-configured?) (public-settings/anon-tracking-enabled)
\*      (not (follow-up-email-sent)))
\* (variant: the tracking opt-in is not consulted)
send_follow_up_email_allowed_untracked(cfg, trk) ==
    cfg /\ ~follow_up_email_sent

\* (variant: the check also claims the send, as a compare-and-set would, so
\* that it fails while another execution is inside its send call)
send_follow_up_email_allowed_exclusive(cfg, trk) ==
    /\ cfg /\ trk /\ ~follow_up_email_sent
    /\ \A v \in Workers : run[v].pc # "sending"

send_follow_up_email_allowed(cfg, trk) ==
    cfg /\ trk /\ ~follow_up_email_sent

\* --------------------------------------------------------- AbandonmentEmail
\* (when-not (abandonment-email-sent) ...)
\* (variant: the job body does not look at the flag)
AbandonmentEmail_due_flag_unchecked == TRUE

AbandonmentEmail_due == ~abandonment_email_sent

\* (when (and (email/email-configured?) (public-settings/anon-tracking-enabled)) ...)
AbandonmentEmail_allowed(cfg, trk) == cfg /\ trk

\* ------------------------------------------------------------- try / finally
\* (catch Throwable e (log/error ...)): how the execution leaves the try form
\* (variant: no catch clause, a Throwable leaves the job)
catch_Throwable_rethrown(ok) == IF ok THEN "returned" ELSE "escaped"

catch_Throwable(ok) == "returned"

\* (finally (follow-up-email-sent true)) / (finally (abandonment-email-sent true))
\* (variant: the flag is written after the send instead of in a finally form)
finally_sent_on_success(ok) == ok

finally_sent(ok) == TRUE

\* ----------------------------------------------------------- worker threads
AllIdle == \A w \in Workers : run[w].pc = "idle"

\* no execution is under way: the tables and the clock are taken to stand
\* still for the length of an execution
Quiet == AllIdle

\* the scheduler hands a fired trigger to the first free thread of its pool;
\* when `overlap` is false a trigger is only served once every thread is free
Free(w, overlap) ==
    /\ run[w].pc = "idle"
    /\ \A v \in Workers : v < w => run[v].pc # "idle"
    /\ overlap \/ AllIdle

Returned(j, cfg, trk, calls) ==
    [pc |-> "returned", job |-> j, flag_at_start |-> Sent(j),
     email_configured |-> cfg, anon_tracking_enabled |-> trk,
     email_calls |-> calls, to |-> 0, outcome |-> "none"]

Sending(j, cfg, trk, admin) ==
    [pc |-> "sending", job |-> j, flag_at_start |-> Sent(j),
     email_configured |-> cfg, anon_tracking_enabled |-> trk,
     email_calls |-> {"email-configured?", "send-follow-up-email!"},
     to |-> admin, outcome |-> "none"]

\* The FollowUpEmail job body and send-follow-up-email! up to the call of
\* messages/send-follow-up-email!.  cfg and trk are what email-configured?
\* and anon-tracking-enabled answer during this execution.
FollowUpEmail(w, cfg, trk, overlap) ==
    /\ scheduled = FollowUp
    /\ Free(w, overlap)
    /\ IF FollowUpEmail_due /\ send_follow_up_email_allowed(cfg, trk)
          /\ follow_up_admin # {}
       THEN /\ attempts[FollowUp] < MaxAttempts
            /\ \E admin \in follow_up_admin :
                  run' = [run EXCEPT ![w] = Sending(FollowUp, cfg, trk, admin)]
            /\ attempts' = [attempts EXCEPT ![FollowUp] = @ + 1]
       ELSE /\ run' = [run EXCEPT ![w] =
                         Returned(FollowUp, cfg, trk,
                                  IF FollowUpEmail_due
                                  THEN {"email-configured?"} ELSE {})]
            /\ UNCHANGED attempts
    /\ UNCHANGED <<now, db, flags, interrupted, log, probe, scheduled>>

\* The AbandonmentEmail job body and send-abandoment-email-if-needed! up to
\* the call of messages/send-follow-up-email!.
AbandonmentEmail(w, cfg, trk, overlap) ==
    /\ scheduled = Abandonment
    /\ Free(w, overlap)
    /\ IF AbandonmentEmail_due /\ AbandonmentEmail_allowed(cfg, trk)
          /\ abandonment_admin_email # {}
          /\ should_send_abandoment_email_db
       THEN /\ attempts[Abandonment] < MaxAttempts
            /\ \E admin \in abandonment_admin_email :
                  run' = [run EXCEPT ![w] = Sending(Abandonment, cfg, trk, admin)]
            /\ attempts' = [attempts EXCEPT ![Abandonment] = @ + 1]
            /\ log' = log \cup {AbandonmentInfo}
       ELSE /\ run' = [run EXCEPT ![w] =
                         Returned(Abandonment, cfg, trk,
                                  IF AbandonmentEmail_due
                                  THEN {"email-configured?"} ELSE {})]
            /\ UNCHANGED <<attempts, log>>
    /\ UNCHANGED <<now, db, flags, interrupted, probe, scheduled>>

\* messages/send-follow-up-email! comes back into the try form of
\* send-follow-up-email!: normally (ok) or with a Throwable
follow_up_send_result(w, ok) ==
    /\ run[w].pc = "sending"
    /\ run[w].job = FollowUp
    /\ log' = IF ok THEN log ELSE log \cup {FollowUpError}
    /\ follow_up_email_sent' = finally_sent(ok)
    /\ run' = [run EXCEPT ![w].pc = catch_Throwable(ok),
                          ![w].outcome = IF ok THEN "ok" ELSE "threw"]
    /\ UNCHANGED <<now, db, abandonment_email_sent, attempts, interrupted, probe, scheduled>>

\* the same for the try form of send-abandoment-email-if-needed!
abandonment_send_result(w, ok) ==
    /\ run[w].pc = "sending"
    /\ run[w].job = Abandonment
    /\ log' = IF ok THEN log ELSE log \cup {AbandonmentError}
    /\ abandonment_email_sent' = finally_sent(ok)
    /\ run' = [run EXCEPT ![w].pc = catch_Throwable(ok),
                          ![w].outcome = IF ok THEN "ok" ELSE "threw"]
    /\ UNCHANGED <<now, db, follow_up_email_sent, attempts, interrupted, probe, scheduled>>

\* the scheduler takes the finished execution off its thread
job_done(w) ==
    /\ run[w].pc \in {"returned", "escaped"}
    /\ run' = [run EXCEPT ![w] = Idle]
    /\ UNCHANGED <<now, db, flags, attempts, interrupted, log, probe, scheduled>>

\* the process stops and starts again: executions under way are lost, the
\* settings are read back from the application database
Restart ==
    /\ run' = [w \in Workers |-> Idle]
    /\ interrupted' =
         [j \in Jobs |-> interrupted[j]
             + Cardinality({w \in Workers : run[w].pc = "sending" /\ run[w].job = j})]
    /\ follow_up_email_sent'   = setting_after_restart(follow_up_email_sent)
    /\ abandonment_email_sent' = setting_after_restart(abandonment_email_sent)
    /\ UNCHANGED <<now, db, attempts, log, probe, scheduled>>

\* ------------------------------------------------------------- environment
Tick ==
    /\ Quiet
    /\ now + ClockStep <= MaxNow
    /\ now' = now + ClockStep
    /\ UNCHANGED <<db, flags, attempts, interrupted, log, run, probe, scheduled>>

\* a user row is inserted with date_joined = now
UserJoins(superuser) ==
    /\ Quiet
    /\ Len(users) < MaxUsers
    /\ users' = Append(users, [is_superuser |-> superuser, is_active |-> TRUE,
                               date_joined |-> now])
    /\ UNCHANGED <<now, last_activity, last_view, flags, attempts, interrupted,
                   log, run, probe, scheduled>>

\* an administrator account is deactivated
Deactivate(i) ==
    /\ Quiet
    /\ i \in DOMAIN users
    /\ users[i].is_superuser
    /\ users[i].is_active
    /\ users' = [users EXCEPT ![i].is_active = FALSE]
    /\ UNCHANGED <<now, last_activity, last_view, flags, attempts, interrupted,
                   log, run, probe, scheduled>>

\* a row is added to the Activity table; only AbandonmentEmail reads the
\* table, so the rows matter in the behaviours that follow that job
RecordActivity ==
    /\ Quiet
    /\ scheduled = Abandonment
    /\ users # <<>>
    /\ last_activity # now
    /\ last_activity' = now
    /\ UNCHANGED <<now, users, last_view, flags, attempts, interrupted, log,
                   run, probe, scheduled>>

\* a row is added to the ViewLog table, read by AbandonmentEmail only
RecordView ==
    /\ Quiet
    /\ scheduled = Abandonment
    /\ users # <<>>
    /\ last_view # now
    /\ last_view' = now
    /\ UNCHANGED <<now, users, last_activity, flags, attempts, interrupted, log,
                   run, probe, scheduled>>

\* --------------------------------------------------------- specifications
Init ==
    /\ now = 0
    /\ users = <<>>
    /\ last_activity = NoTime
    /\ last_view = NoTime
    /\ follow_up_email_sent = FALSE
    /\ abandonment_email_sent = FALSE
    /\ attempts = [j \in Jobs |-> 0]
    /\ interrupted = [j \in Jobs |-> 0]
    /\ log = {}
    /\ run = [w \in Workers |-> Idle]
    /\ scheduled \in Jobs
    /\ probe = NoProbe

Environment ==
    \/ Tick
    \/ \E su \in BOOLEAN : UserJoins(su)
    \/ \E i \in 1..MaxUsers : Deactivate(i)
    \/ RecordActivity
    \/ RecordView

Completion ==
    \/ \E w \in Workers, ok \in BOOLEAN : follow_up_send_result(w, ok)
    \/ \E w \in Workers, ok \in BOOLEAN : abandonment_send_result(w, ok)
    \/ \E w \in Workers : job_done(w)

\* one execution at a time
Next ==
    \/ \E w \in Workers, cfg \in BOOLEAN, trk \in BOOLEAN :
          FollowUpEmail(w, cfg, trk, FALSE)
    \/ \E w \in Workers, cfg \in BOOLEAN, trk \in BOOLEAN :
          AbandonmentEmail(w, cfg, trk, FALSE)
    \/ Completion
    \/ Restart
    \/ Environment

Spec == Init /\ [][Next]_vars

\* The jobs carry no DisallowConcurrentExecution: a trigger that fires while
\* an execution of its job is inside its send call is served by another thread.
\* Finished executions are taken off their threads first.
NoneFinished == \A v \in Workers : run[v].pc \in {"idle", "sending"}

\* Overlapping executions.  The User table is filled and the clock advances
\* between executions; restarts and the Activity and ViewLog tables, which
\* play no part in the overlap, are left to Spec.
NextOverlap ==
    \/ \E w \in Workers, cfg \in BOOLEAN, trk \in BOOLEAN :
          FollowUpEmail(w, cfg, trk, NoneFinished)
    \/ \E w \in Workers, cfg \in BOOLEAN, trk \in BOOLEAN :
          AbandonmentEmail(w, cfg, trk, NoneFinished)
    \/ Completion
    \/ Tick
    \/ \E su \in BOOLEAN : UserJoins(su)
    \/ \E i \in 1..MaxUsers : Deactivate(i)

SpecOverlap == Init /\ [][NextOverlap]_vars

\* ------------------------------------------------- the FollowUpEmail trigger
\* The FollowUpEmail job followed from process start, with no restart: every
\* send call comes back.
InitLive == Init /\ scheduled = FollowUp

NextLive ==
    \/ \E w \in Workers, cfg \in BOOLEAN, trk \in BOOLEAN :
          FollowUpEmail(w, cfg, trk, FALSE)
    \/ \E w \in Workers, ok \in BOOLEAN : follow_up_send_result(w, ok)
    \/ \E w \in Workers : job_done(w)
    \/ Tick
    \/ \E su \in BOOLEAN : UserJoins(su)
    \/ \E i \in 1..MaxUsers : Deactivate(i)

\* (cron/cron-schedule "0 0 12 * * ? *"): the trigger fires every day, so an
\* execution that finds e-mail configured and tracking enabled starts again
\* and again; a send call under way comes back and a finished execution
\* leaves its thread.
Fairness ==
    /\ SF_vars(\E w \in Workers : FollowUpEmail(w, TRUE, TRUE, FALSE))
    /\ WF_vars(\E w \in Workers, ok \in BOOLEAN : follow_up_send_result(w, ok))
    /\ WF_vars(\E w \in Workers : job_done(w))

SpecLive == InitLive /\ [][NextLive]_vars /\ Fairness

\* ---------------------------------------------- direct calls of the 4-arity
\* (boolean ...) of the 4-arity's body, as the strings "true" / "false"
boolean(b) == IF b THEN "true" ELSE "false"

ProbeTimes == {NoTime} \cup (0..now)

\* the age below which the 4-arity takes argument k for too recent
Threshold(k) == IF k = "ic" THEN FourWeeks ELSE TwoWeeks

\* (should-send-abandoment-email? ic lu la lv)
should_send_call ==
    /\ probe.res = "unset"
    /\ probe' = [probe EXCEPT !.res =
                   boolean(should_send_abandoment_email(probe.ic, probe.lu,
                                                        probe.la, probe.lv))]
    /\ UNCHANGED <<now, db, flags, attempts, interrupted, log, run, scheduled>>

\* after a call that answered true: one argument is replaced by a timestamp
\* younger than its threshold and the 4-arity is called again
should_send_call_changed(k, t) ==
    /\ probe.res = "true"
    /\ probe.changed = "none"
    /\ t \in 0..now
    /\ now - t < Threshold(k)
    /\ LET p == [probe EXCEPT ![k] = t]
       IN  probe' = [p EXCEPT !.changed = k,
                              !.res = boolean(should_send_abandoment_email(
                                                p.ic, p.lu, p.la, p.lv))]
    /\ UNCHANGED <<now, db, flags, attempts, interrupted, log, run, scheduled>>

InitShould ==
    \/ Init
    \/ /\ now \in 0..MaxNow
       /\ users = <<>>
       /\ last_activity = NoTime
       /\ last_view = NoTime
       /\ follow_up_email_sent = FALSE
       /\ abandonment_email_sent = FALSE
       /\ attempts = [j \in Jobs |-> 0]
       /\ interrupted = [j \in Jobs |-> 0]
       /\ log = {}
       /\ run = [w \in Workers |-> Idle]
       /\ scheduled = Abandonment
       /\ probe \in [ic : ProbeTimes, lu : ProbeTimes, la : ProbeTimes,
                     lv : ProbeTimes, res : {"unset"}, changed : {"none"}]

\* the jobs run on the database, or the 4-arity is called directly
NextShould ==
    \/ probe.res = "off" /\ Next
    \/ should_send_call
    \/ \E k \in {"ic", "lu", "la", "lv"}, t \in 0..MaxNow :
          should_send_call_changed(k, t)

SpecShould == InitShould /\ [][NextShould]_vars

\* =================================================================== claims
ErrorOf(j) == IF j = FollowUp THEN FollowUpError ELSE AbandonmentError

\* this step starts an execution of job j on worker w
Starts(w, j) ==
    /\ run[w].pc = "idle"
    /\ run'[w].pc # "idle"
    /\ run'[w].job = j

\* this step starts an execution of job j on worker w that makes no send
\* attempt, comes straight back and changes nothing else
NoOp(w, j) ==
    /\ run'[w].pc = "returned"
    /\ run'[w].to = 0
    /\ "send-follow-up-email!" \notin run'[w].email_calls
    /\ UNCHANGED <<now, db, flags, attempts, interrupted, log>>

\* this step starts an execution of job j on worker w that makes one send attempt
OneAttempt(w, j) ==
    /\ run'[w].pc = "sending"
    /\ attempts'[j] = attempts[j] + 1

\* the administrator as the specification defines it: a superuser row with
\* the least date_joined
Superusers == {i \in DOMAIN users : users[i].is_superuser}
Administrators ==
    {i \in Superusers : \A j \in Superusers : users[i].date_joined <= users[j].date_joined}

\* timestamp t exists and lies at least `weeks` in the past
AtLeastOld(t, weeks) == t # NoTime /\ now - t >= weeks
AbsentOrOld(t, weeks) == t = NoTime \/ now - t >= weeks

C2_FollowUpSendsOnce ==
    [][ \A w \in Workers :
          /\ ( /\ Starts(w, FollowUp)
               /\ AtLeastOld(instance_creation_timestamp, TwoWeeks)
               /\ ~follow_up_email_sent
               /\ run'[w].email_configured
               /\ run'[w].anon_tracking_enabled
               /\ Administrators # {} )
             => OneAttempt(w, FollowUp)
          /\ ( run[w].pc = "sending" /\ run[w].job = FollowUp
               /\ run'[w].pc = "returned" )
             => follow_up_email_sent'
          /\ ( Starts(w, FollowUp) /\ follow_up_email_sent )
             => NoOp(w, FollowUp)
      ]_vars

\* C3: once the send of a job has thrown and the execution has come back, the
\* job's flag is true, and no later step makes another send attempt for it.
C3_FailedSendSetsFlag ==
    [][ \A j \in Jobs :
          /\ ErrorOf(j) \in log' => Sent(j)'
          /\ ErrorOf(j) \in log  => attempts'[j] = attempts[j]
          /\ \A w \in Workers :
               (run'[w].job = j /\ run'[w].outcome = "threw") => Sent(j)'
      ]_vars

C3_Witness ==
    /\ FollowUpError \in log
    /\ follow_up_email_sent
    /\ attempts[FollowUp] = 1
    /\ \E w \in Workers : run[w].pc = "returned" /\ run[w].outcome = "threw"

\* C4: an execution of either job that started with its flag true has called
\* neither email-configured? nor the templated send, and has come straight back.
C4_NoEmailCallWhenSent ==
    \A w \in Workers :
        (run[w].pc # "idle" /\ run[w].flag_at_start)
        => /\ run[w].email_calls = {}
           /\ run[w].pc = "returned"
           /\ run[w].to = 0
           /\ run[w].outcome = "none"

C4_Witness ==
    /\ \E w \in Workers :
         /\ run[w].pc = "returned" /\ run[w].flag_at_start
         /\ run[w].job = Abandonment
         /\ run[w].email_configured /\ run[w].anon_tracking_enabled
         /\ should_send_abandoment_email_db
         /\ abandonment_admin_email # {}

C7_FollowUpNoOp ==
    [][ \A w \in Workers :
          ( /\ Starts(w, FollowUp)
            /\ \/ ~AtLeastOld(instance_creation_timestamp, TwoWeeks)
               \/ ~run'[w].email_configured
               \/ ~run'[w].anon_tracking_enabled
               \/ Superusers = {} )
          => NoOp(w, FollowUp)
      ]_vars

C7_Witness ==
    \E w \in Workers :
        /\ run[w].pc = "returned" /\ run[w].job = FollowUp
        /\ ~run[w].flag_at_start /\ ~follow_up_email_sent
        /\ AtLeastOld(instance_creation_timestamp, TwoWeeks)
        /\ Superusers # {}
        /\ run[w].email_configured /\ ~run[w].anon_tracking_enabled
        /\ attempts[FollowUp] = 0

\* C8: both flags start false, and a flag that is true is true after every step.
C8_FlagsMonotonic ==
    /\ ~follow_up_email_sent /\ ~abandonment_email_sent
    /\ [][ \A j \in Jobs : Sent(j) => Sent(j)' ]_vars

C8_Witness ==
    /\ follow_up_email_sent
    /\ interrupted[FollowUp] = 1
    /\ FollowUpEmail_due_flag_unchecked
    /\ \E w \in Workers : run[w].pc = "returned" /\ run[w].flag_at_start

\* C9: no execution ends with an exception handed to the scheduler; an
\* execution whose send threw has logged the error and come back normally.
C9_NoFailureEscapes ==
    \A w \in Workers :
        /\ run[w].pc # "escaped"
        /\ run[w].outcome = "threw"
           => run[w].pc = "returned" /\ ErrorOf(run[w].job) \in log

C9_Witness ==
    \E w \in Workers :
        /\ run[w].pc = "returned" /\ run[w].outcome = "threw"
        /\ run[w].job = Abandonment
        /\ run[w].to \in abandonment_admin_email

\* C10 (as stated): whichever job sends, it sends to a superuser with the
\* least date_joined, and an execution that passed every other check came
\* back without sending only if the User table holds no superuser.
C10_SameRecipient ==
    \A w \in Workers :
        /\ run[w].pc = "sending" => run[w].to \in Administrators
        /\ ( /\ run[w].pc = "returned" /\ run[w].outcome = "none"
             /\ run[w].job = FollowUp /\ FollowUpEmail_due
             /\ run[w].email_configured /\ run[w].anon_tracking_enabled )
           => Administrators = {}

\* the checks of job j other than the flag, e-mail configuration and tracking
OtherChecksPass(j) ==
    IF j = FollowUp
    THEN /\ AtLeastOld(instance_creation_timestamp, TwoWeeks)
         /\ follow_up_admin # {}
    ELSE /\ should_send_abandoment_email_db
         /\ abandonment_admin_email # {}

\* an execution of job j other than w is inside its send call
SendUnderWay(w, j) ==
    \E v \in Workers \ {w} : run[v].pc = "sending" /\ run[v].job = j

\* C11: passing the gate does not write the flag, which is written only when
\* a send call of the job comes back into its finally form; so an execution of
\* a job that starts while another execution of the same job is inside its send
\* call, with the flag still false and the other checks passing, makes a send
\* attempt of its own.
C11_OverlappingExecutionsBothSend ==
    [][ \A j \in Jobs, w \in Workers :
          /\ (Starts(w, j) /\ OneAttempt(w, j)) => (~Sent(j) /\ ~Sent(j)')
          /\ (~Sent(j) /\ Sent(j)')
                => \E v \in Workers : /\ run[v].pc = "sending" /\ run[v].job = j
                                      /\ run'[v].pc = "returned"
          /\ ( /\ Starts(w, j)
               /\ SendUnderWay(w, j)
               /\ ~Sent(j)
               /\ run'[w].email_configured
               /\ run'[w].anon_tracking_enabled
               /\ OtherChecksPass(j) )
             => OneAttempt(w, j)
      ]_vars

\* two executions of FollowUpEmail inside their send calls at once: two send
\* attempts for one notification, with no restart
C11_Witness ==
    /\ attempts[FollowUp] = 2
    /\ interrupted[FollowUp] = 0
    /\ ~follow_up_email_sent
    /\ Cardinality({w \in Workers : run[w].pc = "sending" /\ run[w].job = FollowUp}) = 2

\* C12: in the scheduled AbandonmentEmail job the creation timestamp and the
\* last-user timestamp are the least and the greatest date_joined of the User
\* table: one is absent exactly when the other is, and last-user is never the
\* earlier of the two.  So a send attempt of the job is never made while
\* last-user is absent, and is only made when the newest user joined at least
\* two weeks ago.
C12_LastUserNeverAbsentAtSend ==
    /\ [] /\ (last_user = NoTime <=> instance_creation_timestamp = NoTime)
          /\ last_user >= instance_creation_timestamp
    /\ [][ \A w \in Workers :
             (Starts(w, Abandonment) /\ OneAttempt(w, Abandonment))
             => /\ last_user # NoTime
                /\ now - last_user >= TwoWeeks
                /\ now - instance_creation_timestamp >= FourWeeks
       ]_vars

\* a send attempt of AbandonmentEmail with two users who joined at different times
C12_Witness ==
    \E w \in Workers :
        /\ run[w].pc = "sending" /\ run[w].job = Abandonment
        /\ instance_creation_timestamp # NoTime
        /\ instance_creation_timestamp < last_user

\* C13 (as stated): if from some point on the instance is at least two weeks
\* old and an administrator (a superuser) is present, while the trigger keeps
\* firing with e-mail configured and tracking enabled and every send call
\* comes back, then follow-up-email-sent becomes true and stays true, and once
\* it is true no further follow-up send attempt is made.
C13_FollowUpEventuallySent ==
    /\ ( <>[] ( /\ AtLeastOld(instance_creation_timestamp, TwoWeeks)
                /\ Administrators # {} ) )
       => <>[] follow_up_email_sent
    /\ [][ follow_up_email_sent => attempts'[FollowUp] = attempts[FollowUp] ]_vars

====
